---- MODULE Spec2Model ----
(***************************************************************************)
(* Model of app.py (PitchMi): the Flask front door POST /evaluate and the   *)
(* relay call_gemini_with_video with its retry loop and its validation of   *)
(* the upstream answer.                                                     *)
(*                                                                          *)
(* Python values are tagged records [t |-> type, v |-> sequence]:           *)
(*   dict  v = sequence of <<key, value>> pairs in insertion order           *)
(*   list  v = sequence of values                                           *)
(*   str   v = sequence of characters (each an atom)                         *)
(*   int   v = <<n>>,  bool v = <<b>>,  NoneType v = <<>>                    *)
(* A JSON text is a str whose characters are JSON lexemes.                  *)
(***************************************************************************)
EXTENDS Integers, Sequences, FiniteSets, TLC

\* ---------------------------------------------------------------- bounds
MaxTextLen == 3      \* longest arbitrary answer text, in lexemes
MaxVideoLen == 1     \* longest upload, in bytes
NumReqs == 2         \* request identities

\* ------------------------------------------------------- program constants
\* mutant: one attempt too many
max_retries_Four == 3 + 1
max_retries == 3
RetryStatus == 503
OkStatus == 200
SnippetLen == 300
SleepSeconds == 5
ClientErrorStatus == 400
ServerErrorStatus == 500

\* ------------------------------------------------------------ Python values
PyDict(pairs) == [t |-> "dict", v |-> pairs]
PyList(elems) == [t |-> "list", v |-> elems]
PyStr(chars) == [t |-> "str", v |-> chars]
PyInt(n) == [t |-> "int", v |-> <<n>>]
PyBool(b) == [t |-> "bool", v |-> <<b>>]
PyNone == [t |-> "NoneType", v |-> <<>>]
PyBytes(b) == [t |-> "bytes", v |-> b]
Unbound == [t |-> "unbound", v |-> <<>>]

NoExc == <<>>
Ok(val) == [ok |-> TRUE, val |-> val, exc |-> NoExc, pos |-> 0]
Raise(exc, pos) == [ok |-> FALSE, val |-> PyNone, exc |-> exc, pos |-> pos]

\* x[key] for a str key, as Python evaluates it
GetItemKey(x, key) ==
    IF x.t = "dict"
    THEN IF \E i \in 1..Len(x.v) : x.v[i][1] = key
         THEN Ok(x.v[CHOOSE i \in 1..Len(x.v) : x.v[i][1] = key][2])
         ELSE Raise(<<"KeyError", key>>, 0)
    ELSE Raise(<<"TypeError", x.t>>, 0)

\* x[0], as Python evaluates it
GetItemZero(x) ==
    CASE x.t = "dict" -> Raise(<<"KeyError", "0">>, 0)
      [] x.t = "list" -> IF Len(x.v) > 0 THEN Ok(x.v[1])
                         ELSE Raise(<<"IndexError", "list index out of range">>, 0)
      [] x.t = "str" -> IF Len(x.v) > 0 THEN Ok(PyStr(<<x.v[1]>>))
                        ELSE Raise(<<"IndexError", "string index out of range">>, 0)
      [] OTHER -> Raise(<<"TypeError", x.t>>, 0)

\* dict assignment d[key] = val: an existing key keeps its position
DictSet(pairs, key, val) ==
    IF \E i \in 1..Len(pairs) : pairs[i][1] = key
    THEN [i \in 1..Len(pairs) |-> IF pairs[i][1] = key THEN <<key, val>> ELSE pairs[i]]
    ELSE Append(pairs, <<key, val>>)

\* ------------------------------------------------------------- json.loads
StringLexemes == {"\"a\"", "\"b\""}
Lexemes == {"{", "}", "[", "]", ":", ",", "1", "true", "null"} \cup StringLexemes

Unquote(lex) == IF lex = "\"a\"" THEN "a" ELSE "b"

PRes(ok, val, next, exc, pos) == [ok |-> ok, val |-> val, next |-> next, exc |-> exc, pos |-> pos]
PFail(msg, at) == PRes(FALSE, PyNone, at, <<"JSONDecodeError", msg>>, at - 1)

RECURSIVE ParseValue(_, _)
RECURSIVE ParseMembers(_, _, _)
RECURSIVE ParseElements(_, _, _)

\* members of an object after "{" or ","; i is the index of the expected key
ParseMembers(s, i, acc) ==
    IF i > Len(s) \/ s[i] \notin StringLexemes
    THEN PFail("Expecting property name enclosed in double quotes", i)
    ELSE IF i + 1 > Len(s) \/ s[i + 1] # ":"
    THEN PFail("Expecting ':' delimiter", i + 1)
    ELSE LET r == ParseValue(s, i + 2) IN
         IF ~r.ok THEN r
         ELSE LET acc2 == DictSet(acc, Unquote(s[i]), r.val) IN
              IF r.next > Len(s) THEN PFail("Expecting ',' delimiter", r.next)
              ELSE IF s[r.next] = "}" THEN PRes(TRUE, PyDict(acc2), r.next + 1, NoExc, 0)
              ELSE IF s[r.next] = "," THEN ParseMembers(s, r.next + 1, acc2)
              ELSE PFail("Expecting ',' delimiter", r.next)

\* elements of an array after "[" or ","; i is the index of the expected value
ParseElements(s, i, acc) ==
    LET r == ParseValue(s, i) IN
    IF ~r.ok THEN r
    ELSE LET acc2 == Append(acc, r.val) IN
         IF r.next > Len(s) THEN PFail("Expecting ',' delimiter", r.next)
         ELSE IF s[r.next] = "]" THEN PRes(TRUE, PyList(acc2), r.next + 1, NoExc, 0)
         ELSE IF s[r.next] = "," THEN ParseElements(s, r.next + 1, acc2)
         ELSE PFail("Expecting ',' delimiter", r.next)

\* one JSON value starting at lexeme i
ParseValue(s, i) ==
    IF i > Len(s) THEN PFail("Expecting value", i)
    ELSE CASE s[i] = "{" ->
                IF i + 1 <= Len(s) /\ s[i + 1] = "}"
                THEN PRes(TRUE, PyDict(<<>>), i + 2, NoExc, 0)
                ELSE ParseMembers(s, i + 1, <<>>)
           [] s[i] = "[" ->
                IF i + 1 <= Len(s) /\ s[i + 1] = "]"
                THEN PRes(TRUE, PyList(<<>>), i + 2, NoExc, 0)
                ELSE ParseElements(s, i + 1, <<>>)
           [] s[i] \in StringLexemes -> PRes(TRUE, PyStr(<<Unquote(s[i])>>), i + 1, NoExc, 0)
           [] s[i] = "1" -> PRes(TRUE, PyInt(1), i + 1, NoExc, 0)
           [] s[i] = "true" -> PRes(TRUE, PyBool(TRUE), i + 1, NoExc, 0)
           [] s[i] = "null" -> PRes(TRUE, PyNone, i + 1, NoExc, 0)
           [] OTHER -> PFail("Expecting value", i)

\* json.loads(x): TypeError for a non-str argument, JSONDecodeError for a
\* str that is not exactly one JSON value
json_loads(x) ==
    IF x.t # "str" THEN Raise(<<"TypeError", x.t>>, 0)
    ELSE LET r == ParseValue(x.v, 1) IN
         IF ~r.ok THEN Raise(r.exc, r.pos)
         ELSE IF r.next <= Len(x.v) THEN Raise(<<"JSONDecodeError", "Extra data">>, r.next - 1)
         ELSE Ok(r.val)

\* ------------------------------------------------------ upstream responses
\* requests.Response: status_code, text, and what .json() decodes text to
\* (wellformed = FALSE when text is not JSON at all)
Response(status, text, wellformed, data) ==
    [status |-> status, text |-> text, wellformed |-> wellformed, data |-> data]
NoResp == Response(0, <<>>, FALSE, PyNone)

\* resp.json()
resp_json(resp) ==
    IF resp.wellformed THEN Ok(resp.data)
    ELSE Raise(<<"JSONDecodeError", "Expecting value">>, 0)

\* the envelope {"candidates": [{"content": {"parts": [{"text": x}]}}]}
Envelope(x) ==
    PyDict(<< <<"candidates", PyList(<< PyDict(<< <<"content",
        PyDict(<< <<"parts", PyList(<< PyDict(<< <<"text", x>> >>) >>)>> >>)>>,
        <<"finishReason", PyStr(<<"STOP">>)>> >>) >>)>>,
        <<"usageMetadata", PyDict(<<>>)>> >>)

MalformedEnvelopes ==
    { PyNone, PyInt(1), PyBool(TRUE), PyStr(<<"a">>), PyList(<<>>), PyDict(<<>>),
      PyList(<< PyDict(<<>>) >>),
      PyDict(<< <<"error", PyStr(<<"quota">>)>> >>),
      PyDict(<< <<"candidates", PyNone>> >>),
      PyDict(<< <<"candidates", PyStr(<<"a">>)>> >>),
      PyDict(<< <<"candidates", PyStr(<<>>)>> >>),
      PyDict(<< <<"candidates", PyDict(<<>>)>> >>),
      PyDict(<< <<"candidates", PyList(<<>>)>> >>),
      PyDict(<< <<"candidates", PyList(<< PyInt(1) >>)>> >>),
      PyDict(<< <<"candidates", PyList(<< PyDict(<< <<"finishReason", PyStr(<<"SAFETY">>)>> >>) >>)>> >>),
      PyDict(<< <<"candidates", PyList(<< PyDict(<< <<"content", PyNone>> >>) >>)>> >>),
      PyDict(<< <<"candidates", PyList(<< PyDict(<< <<"content", PyDict(<<>>)>> >>) >>)>> >>),
      PyDict(<< <<"candidates", PyList(<< PyDict(<< <<"content",
          PyDict(<< <<"parts", PyList(<<>>)>> >>)>> >>) >>)>> >>),
      PyDict(<< <<"candidates", PyList(<< PyDict(<< <<"content",
          PyDict(<< <<"parts", PyList(<< PyDict(<<>>) >>)>> >>)>> >>) >>)>> >>),
      PyDict(<< <<"candidates", PyList(<< PyDict(<< <<"content",
          PyDict(<< <<"parts", PyList(<< PyStr(<<"a">>) >>)>> >>)>> >>) >>)>> >>) }

RECURSIVE SeqsUpTo(_, _)
SeqsUpTo(S, n) ==
    IF n = 0 THEN {<<>>}
    ELSE LET shorter == SeqsUpTo(S, n - 1) IN
         shorter \cup {Append(q, x) : q \in shorter, x \in S}

\* json.dumps at the level of lexemes: how a JSON value is written
Quote(c) == IF c = "a" THEN "\"a\"" ELSE "\"b\""

RECURSIVE json_dumps(_)
RECURSIVE DumpItems(_, _)
RECURSIVE DumpPairs(_, _)
DumpItems(elems, i) ==
    IF i > Len(elems) THEN <<>>
    ELSE (IF i > 1 THEN <<",">> ELSE <<>>) \o json_dumps(elems[i]) \o DumpItems(elems, i + 1)
DumpPairs(pairs, i) ==
    IF i > Len(pairs) THEN <<>>
    ELSE (IF i > 1 THEN <<",">> ELSE <<>>) \o <<Quote(pairs[i][1]), ":">>
         \o json_dumps(pairs[i][2]) \o DumpPairs(pairs, i + 1)
json_dumps(x) ==
    CASE x.t = "dict" -> <<"{">> \o DumpPairs(x.v, 1) \o <<"}">>
      [] x.t = "list" -> <<"[">> \o DumpItems(x.v, 1) \o <<"]">>
      [] x.t = "str" -> <<Quote(x.v[1])>>
      [] x.t = "int" -> <<"1">>
      [] x.t = "bool" -> <<"true">>
      [] OTHER -> <<"null">>

\* JSON values the upstream model may write as its answer
Scalars == {PyInt(1), PyBool(TRUE), PyNone, PyStr(<<"a">>), PyStr(<<"b">>)}
FlatValues == Scalars \cup {PyList(<<>>), PyDict(<<>>)}
NestedValues ==
    FlatValues \cup {PyList(<<x>>) : x \in FlatValues}
               \cup {PyList(<<x, y>>) : x \in {PyInt(1)}, y \in FlatValues}
               \cup {PyDict(<< <<"a", x>> >>) : x \in FlatValues}
JsonObjects ==
    {PyDict(<<>>)}
    \cup {PyDict(<< <<k, x>> >>) : k \in {"a", "b"}, x \in NestedValues}
    \cup {PyDict(<< <<"a", x>>, <<"b", y>> >>) : x \in NestedValues, y \in Scalars}
    \cup {PyDict(<< <<"b", x>>, <<"a", y>> >>) : x \in Scalars, y \in {PyInt(1)}}
JsonNonObjects == {x \in NestedValues : x.t # "dict"}
JsonValues == JsonObjects \cup JsonNonObjects

\* a well-formed text no json.dumps writes: a repeated key
RepeatedKeyText == <<"{", "\"a\"", ":", "1", ",", "\"a\"", ":", "true", "}">>

\* longer ill-formed texts
BrokenTexts ==
    { <<"{", "\"a\"", ":", "1", ",", "}">>,
      <<"{", "\"a\"", ":", "1", "}", "}">>,
      <<"{", "\"a\"", ":", "1">>,
      <<"{", "\"a\"", "1", "}">>,
      <<"{", "1", ":", "1", "}">>,
      <<"[", "1", ",", "]">>,
      <<"[", "1", "1", "]">>,
      <<"{", "}", "{", "}">> }

\* answer texts: every lexeme sequence up to MaxTextLen, every written JSON
\* value, and the longer special cases
Texts ==
    SeqsUpTo(Lexemes, MaxTextLen) \cup {json_dumps(x) : x \in JsonValues}
    \cup {RepeatedKeyText} \cup BrokenTexts

NonStrTextValues ==
    { PyNone, PyInt(1), PyBool(TRUE), PyList(<<>>), PyDict(<<>>),
      PyDict(<< <<"a", PyInt(1)>> >>) }

Bodies200 ==
    {Response(OkStatus, <<"json">>, TRUE, Envelope(PyStr(s))) : s \in Texts}
    \cup {Response(OkStatus, <<"json">>, TRUE, Envelope(x)) : x \in NonStrTextValues}
    \cup {Response(OkStatus, <<"json">>, TRUE, e) : e \in MalformedEnvelopes}
    \cup {Response(OkStatus, t, FALSE, PyNone) : t \in {<<>>, <<"<html>">>}}

OtherStatuses == {201, 400, 500}
ErrorTexts == {<<>>, <<"overloaded">>}
\* a non-200 response may still carry a complete envelope with an object answer
BodiesNon200 ==
    {Response(st, t, FALSE, PyNone) : st \in {RetryStatus} \cup OtherStatuses, t \in ErrorTexts}
    \cup {Response(st, <<"json">>, TRUE, Envelope(PyStr(<<"{", "}">>))) :
            st \in {RetryStatus} \cup OtherStatuses}

UpstreamResponses == Bodies200 \cup BodiesNon200

\* ------------------------------------------------------------- messages
\* str(e) of the exception that reaches the handler
Msg(prefix, status, detail, pos) ==
    [prefix |-> prefix, status |-> status, detail |-> detail, pos |-> pos]
NoMsg == Msg("", 0, <<>>, 0)

\* result of a call: a returned value or a raised exception
Ret(val) == [ok |-> TRUE, val |-> val, msg |-> NoMsg]
Err(msg) == [ok |-> FALSE, val |-> PyNone, msg |-> msg]

Min(a, b) == IF a < b THEN a ELSE b

ApiErrorMsg(resp) ==
    Msg("Gemini API error", resp.status,
        SubSeq(resp.text, 1, Min(Len(resp.text), SnippetLen)), 0)
\* mutant: the last timeout is re-raised as it is
TimeoutMsg_Reraised == Msg("", 0, <<"ReadTimeout">>, 0)
TimeoutMsg == Msg("Gemini API request timed out after retries", 0, <<>>, 0)
FormatMsg(e) == Msg("Unexpected Gemini response format", 0, Tail(e.exc), e.pos)
NotJsonMsg(e) == Msg("Gemini did not return valid JSON", 0, Tail(e.exc), e.pos)
RootMsg == Msg("Gemini JSON root must be an object", 0, <<>>, 0)
\* an exception that call_gemini_with_video does not catch: str(e) as is
RawMsg(e) == Msg("", 0, e.exc, e.pos)

\* ------------------------------------------- call_gemini_with_video, pure parts
\* mutant: a 503 on the last attempt leaves the loop as if it had succeeded
AfterResponse_BreakWhenExhausted(status, att) ==
    IF status = RetryStatus
    THEN IF att < max_retries - 1 THEN "retry" ELSE "break"
    ELSE IF status # OkStatus THEN "raise"
    ELSE "break"

\* mutant: every 5xx status is retried
AfterResponse_Retry5xx(status, att) ==
    IF status >= 500 /\ att < max_retries - 1 THEN "retry"
    ELSE IF status # OkStatus THEN "raise"
    ELSE "break"

\* mutant: a 503 is retried without looking at the attempt budget
AfterResponse_Retry503Forever(status, att) ==
    IF status = RetryStatus THEN "retry"
    ELSE IF status # OkStatus THEN "raise"
    ELSE "break"

\* mutant: every 2xx status counts as success
AfterResponse_Accept2xx(status, att) ==
    IF status = RetryStatus /\ att < max_retries - 1 THEN "retry"
    ELSE IF status < 200 \/ status > 299 THEN "raise"
    ELSE "break"

\* what the loop body does with a response of the given status
AfterResponse(status, att) ==
    IF status = RetryStatus /\ att < max_retries - 1 THEN "retry"
    ELSE IF status # OkStatus THEN "raise"
    ELSE "break"

\* mutant: a timeout is never retried
AfterTimeout_NoRetry(att) == "raise"

\* mutant: a timeout sleeps and continues on the last attempt too
AfterTimeout_AlwaysRetry(att) == "retry"

\* what the except clause does with a requests.exceptions.Timeout
AfterTimeout(att) ==
    IF att < max_retries - 1 THEN "retry" ELSE "raise"

\* data["candidates"][0]["content"]["parts"][0]["text"]
ExtractText(data) ==
    LET a == GetItemKey(data, "candidates") IN
    IF ~a.ok THEN a ELSE
    LET b == GetItemZero(a.val) IN
    IF ~b.ok THEN b ELSE
    LET c == GetItemKey(b.val, "content") IN
    IF ~c.ok THEN c ELSE
    LET d == GetItemKey(c.val, "parts") IN
    IF ~d.ok THEN d ELSE
    LET e == GetItemZero(d.val) IN
    IF ~e.ok THEN e ELSE
    GetItemKey(e.val, "text")

\* mutant: the root of the parsed answer is not checked
ValidateResponse_NoRootCheck(rsp) ==
    LET data == resp_json(rsp) IN
    IF ~data.ok THEN Err(RawMsg(data)) ELSE
    LET text == ExtractText(data.val) IN
    IF ~text.ok THEN Err(FormatMsg(text)) ELSE
    LET parsed == json_loads(text.val) IN
    IF ~parsed.ok
    THEN IF parsed.exc[1] = "JSONDecodeError" THEN Err(NotJsonMsg(parsed))
         ELSE Err(RawMsg(parsed))
    ELSE Ret(parsed.val)

\* the code after the loop: decode, extract, parse, check the root
ValidateResponse(rsp) ==
    LET data == resp_json(rsp) IN
    IF ~data.ok THEN Err(RawMsg(data)) ELSE
    LET text == ExtractText(data.val) IN
    IF ~text.ok THEN Err(FormatMsg(text)) ELSE
    LET parsed == json_loads(text.val) IN
    IF ~parsed.ok
    THEN IF parsed.exc[1] = "JSONDecodeError" THEN Err(NotJsonMsg(parsed))
         ELSE Err(RawMsg(parsed))
    ELSE IF parsed.val.t # "dict" THEN Err(RootMsg)
    ELSE Ret(parsed.val)

\* ------------------------------------------------------- front door, pure parts
HttpResponse(status, error, message, result) ==
    [status |-> status, error |-> error, message |-> message, result |-> result]
NoResponse == HttpResponse(0, "", NoMsg, PyNone)

MissingFieldResponse ==
    HttpResponse(ClientErrorStatus, "missing 'video' file field", NoMsg, PyNone)
EmptyPayloadResponse ==
    HttpResponse(ClientErrorStatus, "empty video payload", NoMsg, PyNone)
\* mutant: the result is wrapped in another object
SuccessResponse_Wrapped(result) ==
    HttpResponse(OkStatus, "", NoMsg, PyDict(<< <<"a", result>> >>))

\* jsonify(result), 200 by default
SuccessResponse(result) == HttpResponse(OkStatus, "", NoMsg, result)
\* mutant: only the relay's own RuntimeError is converted, any other
\* exception is left to the framework
FailureResponse_OnlyRuntimeError(msg) ==
    IF msg.prefix = ""
    THEN HttpResponse(ServerErrorStatus, "Internal Server Error", NoMsg, PyNone)
    ELSE HttpResponse(ServerErrorStatus, "evaluation_failed", msg, PyNone)

\* the except clause of evaluate_pitch
FailureResponse(msg) == HttpResponse(ServerErrorStatus, "evaluation_failed", msg, PyNone)

RelayResponse(rr) == IF rr.ok THEN SuccessResponse(rr.val) ELSE FailureResponse(rr.msg)

\* jsonify writes a dict with its keys sorted, at every depth
KeyRank(k) == IF k = "a" THEN 1 ELSE 2
RECURSIVE InsertPair(_, _)
InsertPair(sorted, pair) ==
    IF sorted = <<>> THEN <<pair>>
    ELSE IF KeyRank(pair[1]) < KeyRank(Head(sorted)[1]) THEN <<pair>> \o sorted
    ELSE <<Head(sorted)>> \o InsertPair(Tail(sorted), pair)
RECURSIVE SortPairs(_)
SortPairs(pairs) ==
    IF pairs = <<>> THEN <<>>
    ELSE InsertPair(SortPairs(SubSeq(pairs, 1, Len(pairs) - 1)), pairs[Len(pairs)])
RECURSIVE SortKeys(_)
SortKeys(x) ==
    CASE x.t = "dict" ->
            PyDict(SortPairs([i \in 1..Len(x.v) |-> <<x.v[i][1], SortKeys(x.v[i][2])>>]))
      [] x.t = "list" -> PyList([i \in 1..Len(x.v) |-> SortKeys(x.v[i])])
      [] OTHER -> x

\* the text jsonify(result) puts on the wire for a 200 response; the body of
\* a 400 or 500 response is the error and message of the response record
jsonify(rsp) == IF rsp.status = OkStatus THEN json_dumps(SortKeys(rsp.result)) ELSE <<>>

\* what video_bytes is bound to when the handler builds its response after
\* the relay: del video_bytes runs only when the relay returned
HeldAfterRelay(rr, vb) == IF rr.ok THEN Unbound ELSE vb

\* mutant: the empty payload is not checked
UploadCheck_SkipEmpty(u) ==
    IF ~u.has_video THEN "missing" ELSE "ok"

\* mutant: the payload is checked before the presence of the field
UploadCheck_EmptyFirst(u) ==
    IF Len(u.payload) = 0 THEN "empty"
    ELSE IF ~u.has_video THEN "missing"
    ELSE "ok"

\* the two checks of evaluate_pitch on request.files
UploadCheck(u) ==
    IF ~u.has_video THEN "missing"
    ELSE IF Len(u.payload) = 0 THEN "empty"
    ELSE "ok"

\* mutant: the declared media type is passed on as it is
MimeTypeOrDefault_AsDeclared(mimetype) == mimetype

\* video_file.mimetype or "video/mp4"
MimeTypeOrDefault(mimetype) == IF mimetype = "" THEN "video/mp4" ELSE mimetype

\* ------------------------------------------------------------------ state
RequestIds == 1..NumReqs
Bytes == {0, 1}
Videos == SeqsUpTo(Bytes, MaxVideoLen)
MimeTypes == {"", "video/mp4", "video/webm"}

\* request.files: whether it has "video", the file's bytes and its mimetype
Upload(has_video, payload, mimetype) ==
    [has_video |-> has_video, payload |-> payload, mimetype |-> mimetype]
NoUpload == Upload(FALSE, <<>>, "")
Uploads == {NoUpload} \cup {Upload(TRUE, v, m) : v \in Videos, m \in MimeTypes}

Event(ev, status) == [ev |-> ev, status |-> status]

VARIABLES
    pc,           \* per request: "idle", "post", "inflight", "sleep", "done"
    req,          \* per request: the upload it carries
    video_bytes,  \* per request: local of evaluate_pitch
    mime_type,    \* per request: local of evaluate_pitch
    attempt,      \* per request: loop variable of call_gemini_with_video
    resp,         \* per request: the response requests.post returned last
    history,      \* per request: outbound calls, their outcomes and sleeps
    response,     \* per request: the HTTP response sent
    body,         \* per request: the text of a 200 response
    held,         \* per request: video_bytes when the response was built
    slept,        \* per request: seconds spent in time.sleep
    health        \* the last response of GET /

vars == <<pc, req, video_bytes, mime_type, attempt, resp, history, response,
          body, held, slept, health>>

Init ==
    /\ pc = [r \in RequestIds |-> "idle"]
    /\ req = [r \in RequestIds |-> NoUpload]
    /\ video_bytes = [r \in RequestIds |-> Unbound]
    /\ mime_type = [r \in RequestIds |-> ""]
    /\ attempt = [r \in RequestIds |-> 0]
    /\ resp = [r \in RequestIds |-> NoResp]
    /\ history = [r \in RequestIds |-> <<>>]
    /\ response = [r \in RequestIds |-> NoResponse]
    /\ body = [r \in RequestIds |-> <<>>]
    /\ held = [r \in RequestIds |-> Unbound]
    /\ slept = [r \in RequestIds |-> 0]
    /\ health = NoResponse

\* the handler returns: its frame and that of the relay are gone
Respond(r, rsp) ==
    /\ response' = [response EXCEPT ![r] = rsp]
    /\ pc' = [pc EXCEPT ![r] = "done"]
    /\ video_bytes' = [video_bytes EXCEPT ![r] = Unbound]
    /\ mime_type' = [mime_type EXCEPT ![r] = ""]
    /\ attempt' = [attempt EXCEPT ![r] = 0]
    /\ body' = [body EXCEPT ![r] = jsonify(rsp)]
    /\ UNCHANGED <<slept, health>>

\* time.sleep(5); continue
Retry(r) ==
    /\ pc' = [pc EXCEPT ![r] = "sleep"]
    /\ slept' = [slept EXCEPT ![r] = @ + SleepSeconds]
    /\ UNCHANGED <<video_bytes, mime_type, attempt, response, body, held, health>>

\* POST /evaluate arrives: evaluate_pitch up to the first outbound call
ReceiveFrom(r, uploads) ==
    /\ pc[r] = "idle"
    /\ \E u \in uploads :
        /\ req' = [req EXCEPT ![r] = u]
        /\ IF UploadCheck(u) = "missing"
           THEN /\ Respond(r, MissingFieldResponse)
                /\ UNCHANGED <<resp, held>>
           ELSE IF UploadCheck(u) = "empty"
           THEN /\ Respond(r, EmptyPayloadResponse)
                /\ held' = [held EXCEPT ![r] = PyBytes(u.payload)]
                /\ UNCHANGED resp
           ELSE /\ video_bytes' = [video_bytes EXCEPT ![r] = PyBytes(u.payload)]
                /\ mime_type' = [mime_type EXCEPT ![r] = MimeTypeOrDefault(u.mimetype)]
                /\ attempt' = [attempt EXCEPT ![r] = 0]
                /\ pc' = [pc EXCEPT ![r] = "post"]
                /\ UNCHANGED <<resp, response, body, held, slept, health>>
    /\ UNCHANGED history

Receive(r) == ReceiveFrom(r, Uploads)

\* requests.post(url, json=payload, timeout=300) is issued
Post(r) ==
    /\ pc[r] = "post"
    /\ attempt[r] < max_retries
    /\ pc' = [pc EXCEPT ![r] = "inflight"]
    /\ history' = [history EXCEPT ![r] = Append(@, Event("post", 0))]
    /\ UNCHANGED <<req, video_bytes, mime_type, attempt, resp, response,
                   body, held, slept, health>>

\* requests.post returns a response: rest of the loop body, and on break the
\* validation and the handler's response
PostReturns(r, upstream) ==
    /\ pc[r] = "inflight"
    /\ \E rsp \in upstream :
        LET step == AfterResponse(rsp.status, attempt[r]) IN
        /\ IF step = "retry"
           THEN /\ history' = [history EXCEPT ![r] =
                        Append(Append(@, Event("response", rsp.status)), Event("sleep", 0))]
                /\ resp' = [resp EXCEPT ![r] = rsp]
                /\ Retry(r)
           ELSE /\ history' = [history EXCEPT ![r] = Append(@, Event("response", rsp.status))]
                /\ resp' = [resp EXCEPT ![r] = rsp]
                /\ IF step = "raise"
                   THEN /\ Respond(r, FailureResponse(ApiErrorMsg(rsp)))
                        /\ held' = [held EXCEPT ![r] = video_bytes[r]]
                   ELSE /\ Respond(r, RelayResponse(ValidateResponse(rsp)))
                        /\ held' = [held EXCEPT ![r] =
                                HeldAfterRelay(ValidateResponse(rsp), video_bytes[r])]
    /\ UNCHANGED req

\* requests.post raises requests.exceptions.Timeout
PostTimesOut(r) ==
    /\ pc[r] = "inflight"
    /\ IF AfterTimeout(attempt[r]) = "retry"
       THEN /\ history' = [history EXCEPT ![r] =
                    Append(Append(@, Event("timeout", 0)), Event("sleep", 0))]
            /\ Retry(r)
            /\ UNCHANGED resp
       ELSE /\ history' = [history EXCEPT ![r] = Append(@, Event("timeout", 0))]
            /\ Respond(r, FailureResponse(TimeoutMsg))
            /\ held' = [held EXCEPT ![r] = video_bytes[r]]
            /\ UNCHANGED resp
    /\ UNCHANGED req

\* requests.post raises any other exception (connection refused, DNS, ...):
\* not caught by the relay, caught by the handler
PostFails(r) ==
    /\ pc[r] = "inflight"
    /\ history' = [history EXCEPT ![r] = Append(@, Event("error", 0))]
    /\ Respond(r, FailureResponse(Msg("", 0, <<"ConnectionError">>, 0)))
    /\ held' = [held EXCEPT ![r] = video_bytes[r]]
    /\ UNCHANGED <<req, resp>>

\* mutant: the attempt counter is shared by all requests
Wake_SharedCounter(r) ==
    /\ pc[r] = "sleep"
    /\ attempt' = [q \in RequestIds |-> attempt[q] + 1]
    /\ pc' = [pc EXCEPT ![r] = "post"]
    /\ UNCHANGED <<req, video_bytes, mime_type, resp, history, response,
                   body, held, slept, health>>

\* time.sleep(5) returns; the for loop takes the next attempt
Wake(r) ==
    /\ pc[r] = "sleep"
    /\ attempt' = [attempt EXCEPT ![r] = @ + 1]
    /\ pc' = [pc EXCEPT ![r] = "post"]
    /\ UNCHANGED <<req, video_bytes, mime_type, resp, history, response,
                   body, held, slept, health>>

\* one client, every upstream answer
Client == {1}
Next ==
    \E r \in Client :
        \/ Receive(r)
        \/ Post(r)
        \/ PostReturns(r, UpstreamResponses)
        \/ PostTimesOut(r)
        \/ PostFails(r)
        \/ Wake(r)

Spec == Init /\ [][Next]_vars

\* GET /: the fixed readiness body, 200 by default
ReadyResponse ==
    HttpResponse(OkStatus, "", NoMsg,
                 PyDict(<< <<"status", PyStr(<<"pitch-evaluator-ready">>)>> >>))

\* mutant: readiness reports the state of the upstream
Health_ReportsUpstream ==
    /\ health' = IF \E r \in RequestIds : resp[r].status \notin {0, OkStatus}
                 THEN HttpResponse(RetryStatus, "upstream", NoMsg, PyNone)
                 ELSE ReadyResponse
    /\ UNCHANGED <<pc, req, video_bytes, mime_type, attempt, resp, history, response,
                   body, held, slept>>

\* GET / handled by health()
Health ==
    /\ health' = ReadyResponse
    /\ UNCHANGED <<pc, req, video_bytes, mime_type, attempt, resp, history, response,
                   body, held, slept>>

\* concurrent clients: every request identity may be in flight at once, each
\* thread running the same handler; a small repertoire of uploads and of
\* upstream answers
ConcUploads ==
    {NoUpload, Upload(TRUE, <<>>, "video/webm"), Upload(TRUE, <<1>>, "")}
ConcResponses ==
    { Response(RetryStatus, <<"overloaded">>, FALSE, PyNone),
      Response(ServerErrorStatus, <<>>, FALSE, PyNone),
      Response(OkStatus, <<"json">>, TRUE, Envelope(PyStr(<<"{", "\"b\"", ":", "1", ",", "\"a\"", ":", "1", "}">>))),
      Response(OkStatus, <<"json">>, TRUE, Envelope(PyStr(<<"[", "]">>))) }

NextRequests ==
    \E r \in RequestIds :
        \/ ReceiveFrom(r, ConcUploads)
        \/ Post(r)
        \/ PostReturns(r, ConcResponses)
        \/ PostTimesOut(r)
        \/ PostFails(r)
        \/ Wake(r)

NextConc == Health \/ NextRequests

SpecConc == Init /\ [][NextConc]_vars

\* timeout=300 bounds every outbound call: one that gets no response in time
\* raises Timeout; every sleep ends, and a thread that is about to post does
Fairness ==
    \A r \in RequestIds :
        /\ WF_vars(Post(r))
        /\ WF_vars(PostTimesOut(r))
        /\ WF_vars(Wake(r))

\* the requests alone, under fair scheduling
FairSpec == Init /\ [][NextRequests]_vars /\ Fairness

\* ------------------------------------------------------------ observations
IsPost(e) == e.ev = "post"
IsSleep(e) == e.ev = "sleep"
IsOutcome(e) == e.ev \in {"response", "timeout", "error"}
IsRetryable(e) == e.ev = "timeout" \/ (e.ev = "response" /\ e.status = 503)

Calls(r) == Len(SelectSeq(history[r], IsPost))
Waits(r) == Len(SelectSeq(history[r], IsSleep))
Outs(r) == SelectSeq(history[r], IsOutcome)
AllRetryable(o) == \A i \in 1..Len(o) : IsRetryable(o[i])

\* the request reached the relay: it carried a non-empty video
RelayCalled(r) == pc[r] # "idle" /\ req[r].has_video /\ Len(req[r].payload) > 0
\* the request ended on an upstream 200
EndedOn200(r) ==
    /\ pc[r] = "done"
    /\ Outs(r) # <<>>
    /\ Outs(r)[Len(Outs(r))] = Event("response", 200)

\* the value at candidates[0].content.parts[0].text of a complete envelope
IsEnvelope(d) == d.t = "dict" /\ Len(d.v) = 2 /\ d.v[2][1] = "usageMetadata"
AnswerOf(d) == d.v[1][2].v[1].v[1][2].v[1][2].v[1].v[1][2]

ObjectTexts == {json_dumps(x) : x \in JsonObjects}
NonObjectTexts == {json_dumps(x) : x \in JsonNonObjects}
ObjectOfText == [s \in ObjectTexts |-> CHOOSE x \in JsonObjects : json_dumps(x) = s]
WellFormedTexts == ObjectTexts \cup NonObjectTexts \cup {RepeatedKeyText}

\* ------------------------------------------------------------------ claims

\* C1: one call of call_gemini_with_video issues at least 1 and at most 3
\* outbound POSTs, whatever the upstream outcomes; never a fourth.
C1_AtMostThreePosts ==
    \A r \in RequestIds :
        /\ Calls(r) <= 3
        /\ (pc[r] = "done" /\ RelayCalled(r)) => Calls(r) >= 1
C1_Witness ==
    \E r \in RequestIds : pc[r] = "done" /\ RelayCalled(r) /\ Calls(r) = 3

\* C2: when every attempt is answered 503, the request makes exactly 3
\* outbound calls and is answered 500 "evaluation_failed" with the message of
\* the upstream 503.
C2_All503Gives500 ==
    \A r \in RequestIds :
        (/\ pc[r] = "done"
         /\ Outs(r) # <<>>
         /\ \A i \in 1..Len(Outs(r)) : Outs(r)[i] = Event("response", 503))
        => /\ Calls(r) = 3
           /\ response[r].status = 500
           /\ response[r].error = "evaluation_failed"
           /\ response[r].message.prefix = "Gemini API error"
           /\ response[r].message.status = 503
C2_Witness ==
    \E r \in RequestIds :
        /\ pc[r] = "done"
        /\ Outs(r) = <<Event("response", 503), Event("response", 503), Event("response", 503)>>
        /\ response[r].status = 500

\* C3: k retryable outcomes (503 or timeout, k = 0, 1, 2) followed by a 200
\* carrying an object answer give a 200 response with exactly that object,
\* after k+1 outbound calls and k waits; fewer than 3 retryable outcomes never
\* end the request.
C3_TransientMasked ==
    \A r \in RequestIds :
        /\ (/\ EndedOn200(r)
            /\ AllRetryable(SubSeq(Outs(r), 1, Len(Outs(r)) - 1))
            /\ resp[r].wellformed
            /\ IsEnvelope(resp[r].data)
            /\ AnswerOf(resp[r].data).t = "str"
            /\ AnswerOf(resp[r].data).v \in ObjectTexts)
           => /\ response[r].status = 200
              /\ response[r].result = ObjectOfText[AnswerOf(resp[r].data).v]
              /\ Len(Outs(r)) \in 1..3
              /\ Calls(r) = Len(Outs(r))
              /\ Waits(r) = Len(Outs(r)) - 1
        /\ (pc[r] = "done" /\ Outs(r) # <<>> /\ AllRetryable(Outs(r))) => Len(Outs(r)) = 3
C3_Witness ==
    \E r \in RequestIds :
        /\ pc[r] = "done"
        /\ Outs(r) = <<Event("response", 503), Event("timeout", 0), Event("response", 200)>>
        /\ response[r].status = 200
        /\ response[r].result = PyDict(<< <<"a", PyInt(1)>>, <<"b", PyStr(<<"a">>)>> >>)
        /\ Calls(r) = 3
        /\ Waits(r) = 2

\* C4: a response whose status is neither 200 nor 503, on any attempt, is the
\* last thing the relay does: no call and no wait follows, and the request
\* fails with an error carrying that status.
C4_NonRetryableFailsAtOnce ==
    \A r \in RequestIds :
        \A i \in 1..Len(history[r]) :
            (history[r][i].ev = "response" /\ history[r][i].status \notin {200, 503})
            => /\ i = Len(history[r])
               /\ pc[r] = "done"
               /\ response[r].status = 500
               /\ response[r].message.prefix = "Gemini API error"
               /\ response[r].message.status = history[r][i].status
C4_Witness ==
    \E r \in RequestIds :
        /\ pc[r] = "done"
        /\ Outs(r) = <<Event("timeout", 0), Event("response", 500)>>
        /\ Calls(r) = 2
        /\ response[r].message.status = 500

\* C5: when all 3 attempts end in a retryable condition, the error surfaced
\* is that of the third attempt: the timeout error after a timeout, the
\* status-503 error after a 503.
C5_LastErrorSurfaced ==
    \A r \in RequestIds :
        (pc[r] = "done" /\ Len(Outs(r)) = 3 /\ AllRetryable(Outs(r)))
        => /\ response[r].status = 500
           /\ Outs(r)[3].ev = "timeout" =>
                (/\ response[r].message.prefix = "Gemini API request timed out after retries"
                 /\ response[r].message.status = 0)
           /\ Outs(r)[3].ev = "response" =>
                (/\ response[r].message.prefix = "Gemini API error"
                 /\ response[r].message.status = 503)
C5_Witness ==
    \E r \in RequestIds :
        /\ pc[r] = "done"
        /\ Outs(r) = <<Event("timeout", 0), Event("timeout", 0), Event("response", 503)>>
        /\ response[r].message.status = 503

\* C6: a request whose 'video' field is present with an empty payload is
\* answered 400 {"error": "empty video payload"}, whatever its media type.
C6_EmptyPayload400 ==
    \A r \in RequestIds :
        (pc[r] # "idle" /\ req[r].has_video /\ req[r].payload = <<>>)
        => /\ pc[r] = "done"
           /\ response[r].status = 400
           /\ response[r].error = "empty video payload"
           /\ response[r].message = NoMsg
C6_Witness ==
    \E r \in RequestIds :
        /\ pc[r] = "done"
        /\ req[r] = Upload(TRUE, <<>>, "video/webm")
        /\ response[r].status = 400

\* C7: a request without a 'video' file field is answered 400
\* {"error": "missing 'video' file field"}.
C7_MissingField400 ==
    \A r \in RequestIds :
        (pc[r] # "idle" /\ ~req[r].has_video)
        => /\ pc[r] = "done"
           /\ response[r].status = 400
           /\ response[r].error = "missing 'video' file field"
           /\ response[r].message = NoMsg
C7_Witness ==
    \E r \in RequestIds :
        pc[r] = "done" /\ ~req[r].has_video /\ response[r].status = 400

\* C8: an upstream 200 whose answer-text location is absent or malformed,
\* or whose body is no envelope at all, fails with the "unexpected response
\* format" error and a 500.
C8_MalformedEnvelopeFormatError ==
    \A r \in RequestIds :
        (/\ EndedOn200(r)
         /\ (~resp[r].wellformed \/ resp[r].data \in MalformedEnvelopes))
        => /\ response[r].status = 500
           /\ response[r].message.prefix = "Unexpected Gemini response format"

\* C9: an upstream 200 whose extracted answer text does not parse as JSON,
\* be it an ill-formed string or no string at all, fails with the "did not
\* return valid JSON" error and a 500.
C9_UnparseableAnswerNotJsonError ==
    \A r \in RequestIds :
        (/\ EndedOn200(r)
         /\ resp[r].wellformed
         /\ IsEnvelope(resp[r].data)
         /\ (\/ AnswerOf(resp[r].data).t # "str"
             \/ AnswerOf(resp[r].data).v \notin WellFormedTexts))
        => /\ response[r].status = 500
           /\ response[r].message.prefix = "Gemini did not return valid JSON"

\* C10: an upstream 200 whose answer text parses to a JSON value that is not
\* an object fails with the "root must be an object" error and a 500; only
\* an object is ever returned.
C10_NonObjectRootRejected ==
    \A r \in RequestIds :
        /\ (/\ EndedOn200(r)
            /\ resp[r].wellformed
            /\ IsEnvelope(resp[r].data)
            /\ AnswerOf(resp[r].data).t = "str"
            /\ AnswerOf(resp[r].data).v \in NonObjectTexts)
           => /\ response[r].status = 500
              /\ response[r].error = "evaluation_failed"
              /\ response[r].message.prefix = "Gemini JSON root must be an object"
        /\ response[r].status = 200 => response[r].result.t = "dict"
C10_Witness ==
    \E r \in RequestIds :
        /\ EndedOn200(r)
        /\ resp[r].wellformed
        /\ IsEnvelope(resp[r].data)
        /\ AnswerOf(resp[r].data) = PyStr(<<"[", "1", ",", "null", "]">>)
        /\ response[r].message.prefix = "Gemini JSON root must be an object"

\* the request ended on an upstream 200 whose answer text is an object
EndedOnObject(r) ==
    /\ EndedOn200(r)
    /\ resp[r].wellformed
    /\ IsEnvelope(resp[r].data)
    /\ AnswerOf(resp[r].data).t = "str"
    /\ AnswerOf(resp[r].data).v \in ObjectTexts \cup {RepeatedKeyText}

\* equality of JSON values that ignores the order of the keys of an object
RECURSIVE SameJson(_, _)
SameJson(x, y) ==
    /\ x.t = y.t
    /\ Len(x.v) = Len(y.v)
    /\ CASE x.t = "dict" ->
                \A i \in 1..Len(x.v) : \E j \in 1..Len(y.v) :
                    x.v[i][1] = y.v[j][1] /\ SameJson(x.v[i][2], y.v[j][2])
         [] x.t = "list" -> \A i \in 1..Len(x.v) : SameJson(x.v[i], y.v[i])
         [] OTHER -> x.v = y.v

\* C11: every failure of the relay and any other exception is answered 500
\* "evaluation_failed" with a message; a request that is done has exactly one
\* response, of status 200, 400 or 500, and a response once sent never changes.
C11_FailuresBecome500 ==
    /\ [](\A r \in RequestIds :
            /\ pc[r] = "done" => response[r].status \in {200, 400, 500}
            /\ pc[r] # "done" => response[r] = NoResponse
            /\ (pc[r] = "done" /\ RelayCalled(r) /\ ~EndedOnObject(r))
               => /\ response[r].status = 500
                  /\ response[r].error = "evaluation_failed"
                  /\ response[r].message # NoMsg)
    /\ [][\A r \in RequestIds :
            response[r] # NoResponse => response'[r] = response[r]]_vars
C11_Witness ==
    \E r \in RequestIds :
        /\ pc[r] = "done"
        /\ Outs(r) = <<Event("response", 503), Event("error", 0)>>
        /\ response[r].status = 500
        /\ response[r].message.detail = <<"ConnectionError">>

\* C12: on relay success the body of the 200 response is the object parsed
\* from the answer text of the final attempt, no field added, removed or
\* changed, and every object is accepted whatever its fields.
C12_BodyIsParsedObject ==
    \A r \in RequestIds :
        (/\ EndedOn200(r)
         /\ resp[r].wellformed
         /\ IsEnvelope(resp[r].data)
         /\ AnswerOf(resp[r].data).t = "str"
         /\ AnswerOf(resp[r].data).v \in ObjectTexts)
        => /\ response[r].status = 200
           /\ json_loads(PyStr(body[r])).ok
           /\ SameJson(json_loads(PyStr(body[r])).val, ObjectOfText[AnswerOf(resp[r].data).v])
C12_Witness ==
    \E r \in RequestIds :
        /\ EndedOn200(r)
        /\ resp[r].wellformed
        /\ IsEnvelope(resp[r].data)
        /\ AnswerOf(resp[r].data) = PyStr(<<"{", "\"b\"", ":", "null", ",", "\"a\"", ":", "1", "}">>)
        /\ response[r].status = 200
        /\ body[r] = <<"{", "\"a\"", ":", "1", ",", "\"b\"", ":", "null", "}">>

\* C13: GET / is served in every state, whatever the upstream returned and
\* whatever requests are in flight, retrying or failed: its response is 200
\* with the fixed body {"status": "pitch-evaluator-ready"}, and serving it
\* makes no outbound call and touches no request.
C13_HealthAlwaysReady ==
    /\ [](/\ ENABLED Health
          /\ health # NoResponse =>
                /\ health.status = 200
                /\ health.error = ""
                /\ health.result =
                     [t |-> "dict",
                      v |-> << <<"status", [t |-> "str", v |-> <<"pitch-evaluator-ready">>]>> >>])
    /\ [][health' # health =>
            /\ health'.status = 200
            /\ history' = history
            /\ pc' = pc
            /\ response' = response]_vars
C13_Witness ==
    \E r, q \in RequestIds :
        /\ pc[r] = "sleep"
        /\ resp[r].status = 503
        /\ pc[q] = "done"
        /\ response[q].status = 500
        /\ health.status = 200

PostsBefore(r, i) == Len(SelectSeq(SubSeq(history[r], 1, i - 1), IsPost))

\* C14: waits and attempts alternate: the first event is a call; every later
\* call comes right after one 5-second wait, and every wait right after a
\* retryable outcome (503 or timeout) of the first or second attempt; nothing
\* follows a 200, a non-retryable status or the third attempt's outcome; so a
\* relay call that has ended made one wait less than calls.
C14_WaitsAndAttemptsAlternate ==
    \A r \in RequestIds :
        LET h == history[r] IN
        /\ h # <<>> => h[1].ev = "post"
        /\ \A i \in 1..Len(h) :
            /\ (h[i].ev = "post" /\ i > 1) =>
                    (i >= 4 /\ h[i - 1].ev = "sleep" /\ IsRetryable(h[i - 2]))
            /\ h[i].ev = "sleep" =>
                    /\ i >= 3
                    /\ IsRetryable(h[i - 1])
                    /\ PostsBefore(r, i) <= 2
                    /\ i < Len(h) => h[i + 1].ev = "post"
            /\ IsOutcome(h[i]) =>
                    /\ i >= 2 /\ h[i - 1].ev = "post"
                    /\ (~IsRetryable(h[i]) \/ PostsBefore(r, i) = 3) => i = Len(h)
                    /\ (IsRetryable(h[i]) /\ PostsBefore(r, i) < 3) =>
                            (i < Len(h) /\ h[i + 1].ev = "sleep")
        /\ slept[r] = 5 * Waits(r)
        /\ Waits(r) <= Calls(r)
        /\ (pc[r] = "done" /\ Calls(r) >= 1) => Waits(r) = Calls(r) - 1
C14_Witness ==
    \E r \in RequestIds :
        /\ pc[r] = "done"
        /\ history[r] =
              << Event("post", 0), Event("timeout", 0), Event("sleep", 0),
                 Event("post", 0), Event("response", 503), Event("sleep", 0),
                 Event("post", 0), Event("response", 503) >>
        /\ slept[r] = 10

\* everything the model keeps for one request
Own(r) ==
    <<pc[r], req[r], video_bytes[r], mime_type[r], attempt[r], resp[r], history[r],
      response[r], body[r], held[r], slept[r]>>

\* C15: under any interleaving of in-flight requests each request has its own
\* attempt counter and its own budget of 3 attempts, its response is
\* determined by its own upload and the outcomes of its own calls, and a step
\* of one request changes nothing of another.
C15_RequestsIndependent ==
    /\ [](\A r \in RequestIds :
            /\ Calls(r) <= 3
            /\ pc[r] \in {"inflight", "sleep"} => attempt[r] = Calls(r) - 1
            /\ pc[r] = "post" => attempt[r] = Calls(r)
            /\ (pc[r] = "done" /\ Outs(r) # <<>> /\ AllRetryable(Outs(r))) => Len(Outs(r)) = 3
            /\ \A q \in RequestIds :
                (/\ pc[r] = "done" /\ pc[q] = "done"
                 /\ req[r] = req[q] /\ history[r] = history[q] /\ resp[r] = resp[q])
                => (response[r] = response[q] /\ body[r] = body[q]))
    /\ [][\A r, q \in RequestIds :
            (r # q /\ Own(r)' # Own(r)) => Own(q)' = Own(q)]_vars
C15_Witness ==
    \E r, q \in RequestIds :
        /\ pc[r] = "inflight" /\ attempt[r] = 2
        /\ pc[q] = "inflight" /\ attempt[q] = 0
        /\ req[r] = req[q]

\* C16: provided every outbound call returns or times out (and every sleep
\* ends), a request that has been forwarded to the relay eventually gets its
\* response: it never waits or retries forever.
C16_EveryRequestEnds ==
    \A r \in RequestIds :
        (pc[r] \in {"post", "inflight", "sleep"}) ~> (pc[r] = "done")
C16_Witness ==
    \E r \in RequestIds :
        /\ pc[r] = "done"
        /\ Calls(r) = 3
        /\ Waits(r) = 2
        /\ response[r].status \in {200, 500}

\* C17: the handler no longer holds the uploaded bytes when it builds the
\* response of a request that reached the relay, on the failure path as on
\* the success path, and nothing of an upload is left once the request is done.
C17_UploadDiscardedAfterRelay ==
    \A r \in RequestIds :
        /\ (pc[r] = "done" /\ RelayCalled(r)) => held[r] = Unbound
        /\ pc[r] = "done" => video_bytes[r] = Unbound

\* C18: a request answered 400 made no outbound call and no wait; while the
\* relay runs, its video_bytes is the non-empty upload and its mime_type is
\* the declared media type, or "video/mp4" when none was declared.
C18_ClientErrorsLocal ==
    \A r \in RequestIds :
        /\ response[r].status = 400 =>
                (history[r] = <<>> /\ Calls(r) = 0 /\ Waits(r) = 0 /\ slept[r] = 0)
        /\ history[r] # <<>> => (req[r].has_video /\ req[r].payload # <<>>)
        /\ pc[r] \in {"post", "inflight", "sleep"} =>
                /\ video_bytes[r].t = "bytes"
                /\ video_bytes[r].v = req[r].payload
                /\ Len(video_bytes[r].v) > 0
                /\ mime_type[r] # ""
                /\ req[r].mimetype = "" => mime_type[r] = "video/mp4"
                /\ req[r].mimetype # "" => mime_type[r] = req[r].mimetype
C18_Witness ==
    \E r \in RequestIds :
        /\ pc[r] = "inflight"
        /\ req[r] = Upload(TRUE, <<0>>, "")
        /\ mime_type[r] = "video/mp4"

\* C19: a 200 response is sent only when the last outbound call returned 200
\* and its answer text parsed to an object; an upstream 200 is the last event
\* of a request; the response validated is the one of the last attempt.
C19_SuccessOnlyFromLast200 ==
    \A r \in RequestIds :
        /\ response[r].status = 200 =>
                /\ EndedOnObject(r)
                /\ resp[r].status = 200
                /\ AnswerOf(resp[r].data).v \in ObjectTexts =>
                        response[r].result = ObjectOfText[AnswerOf(resp[r].data).v]
        /\ \A i \in 1..Len(history[r]) :
                history[r][i] = Event("response", 200) => i = Len(history[r])
        /\ (pc[r] = "done" /\ Outs(r) # <<>> /\ Outs(r)[Len(Outs(r))].ev = "response") =>
                resp[r].status = Outs(r)[Len(Outs(r))].status
C19_Witness ==
    \E r \in RequestIds :
        /\ pc[r] = "done"
        /\ Outs(r) = <<Event("response", 503), Event("response", 200)>>
        /\ resp[r].status = 200
        /\ response[r].status = 200
        /\ response[r].result = PyDict(<< <<"a", PyList(<<PyInt(1), PyNone>>)>> >>)

====
